---- MODULE Spec2Model ----
(***************************************************************************)
(* Entity sync and frame loop of the Agario client.                        *)
(*   client/src/App.tsx  : usePlayer / useFood, the snapshot store         *)
(*   client/src/Game.tsx : mesh reconciliation effects, key handlers,      *)
(*                         gameLoop                                        *)
(* Positions and radii are integers; elapsed time is in milliseconds.      *)
(* An optional value (T | null | undefined) is a sequence of length <= 1.  *)
(***************************************************************************)
EXTENDS Integers, Sequences, FiniteSets, TLC

\* ---------------------------------------------------------------- constants
WORLD_SIZE == 1000
CAMERA_SIZE == 400
FOOD_RADIUS == 5
MOVE_SPEED == 200

\* identity.toHexString() of this client, and one remote player
Me == "me"
PlayerIds == {"me", "p2"}
FoodIds == {1, 7}

\* Bound on the number of notifications delivered in one behaviour.
MaxNotes == 3
\* Bound on the length of the food array (useFood.onInsert appends).
MaxFood == 2

Pos(x, y) == [x |-> x, y |-> y]
Rgb(r, g, b) == [r |-> r, g |-> g, b |-> b]
Red == Rgb(255, 0, 0)
Magenta == Rgb(255, 0, 255)

PlayerRow(id, pos, radius, color, online) ==
  [identity |-> id, position |-> pos, radius |-> radius, color |-> color,
   online |-> online]

FoodRow(id, pos, color) == [id |-> id, position |-> pos, color |-> color]

\* Rows the backend reports in the reconciliation specification: for the
\* local player a base row, one with position and radius changed, one with
\* the color changed (in one component), one offline with radius and color
\* changed; for the remote player an online and an offline row.
SyncPlayerRows ==
  {PlayerRow("me", Pos(450, 450), 10, Red, TRUE),
   PlayerRow("me", Pos(500, -600), 20, Red, TRUE),
   PlayerRow("me", Pos(450, 450), 10, Magenta, TRUE),
   PlayerRow("me", Pos(450, 450), 20, Magenta, FALSE),
   PlayerRow("p2", Pos(450, 450), 10, Red, TRUE),
   PlayerRow("p2", Pos(500, -600), 20, Magenta, FALSE)}

SyncFoodRows ==
  {FoodRow(1, Pos(450, 450), Red),
   FoodRow(1, Pos(500, -600), Magenta),
   FoodRow(7, Pos(450, 450), Red)}

\* Rows the backend reports in the frame-loop specification: the local
\* player inside the world, on its boundary and outside it, and offline.
LoopPlayerRows ==
  {PlayerRow("me", Pos(450, 450), 10, Red, TRUE),
   PlayerRow("me", Pos(500, -600), 10, Red, TRUE),
   PlayerRow("me", Pos(-490, 0), 10, Red, FALSE)}

\* ------------------------------------------------------- JavaScript Map
\* A Map is its entries in insertion order; an entry is a row, keyed by
\* row.identity. Map.set replaces the value of a present key in place and
\* appends an absent one.
RECURSIVE SeqFilterKeyNot(_, _)
SeqFilterKeyNot(m, k) ==
  IF m = <<>> THEN <<>>
  ELSE IF Head(m).identity = k THEN SeqFilterKeyNot(Tail(m), k)
       ELSE <<Head(m)>> \o SeqFilterKeyNot(Tail(m), k)

MapKeys(m) == {m[i].identity : i \in DOMAIN m}
MapHas(m, k) == k \in MapKeys(m)
MapGet(m, k) ==
  IF MapHas(m, k) THEN <<m[CHOOSE i \in DOMAIN m : m[i].identity = k]>>
  ELSE <<>>
MapDelete(m, k) == SeqFilterKeyNot(m, k)
MapSet(m, k, v) ==
  IF MapHas(m, k)
  THEN [i \in DOMAIN m |-> IF m[i].identity = k THEN v ELSE m[i]]
  ELSE Append(m, v)

\* ------------------------------------------------- usePlayer (App.tsx 13-49)
\* Each updater returns the next state; onUpdate and onDelete also delete
\* the key from prev itself (PlayerPrevAfter*), the Map they were handed.
PlayerOnInsert(prev, player) == MapSet(prev, player.identity, player)

PlayerOnUpdate(prev, oldPlayer, player) ==
  MapSet(MapDelete(prev, oldPlayer.identity), player.identity, player)

PlayerOnDelete(prev, player) == MapDelete(prev, player.identity)

PlayerPrevAfterUpdate(prev, oldPlayer) == MapDelete(prev, oldPlayer.identity)

PlayerPrevAfterDelete(prev, player) == MapDelete(prev, player.identity)

\* --------------------------------------------------- useFood (App.tsx 51-88)
RECURSIVE FoodFilterIdNot(_, _)
FoodFilterIdNot(arr, id) ==
  IF arr = <<>> THEN <<>>
  ELSE IF Head(arr).id = id THEN FoodFilterIdNot(Tail(arr), id)
       ELSE <<Head(arr)>> \o FoodFilterIdNot(Tail(arr), id)

\* Array.prototype.findIndex, 1-based; 0 stands for -1.
FindIndex(arr, id) ==
  IF \E i \in DOMAIN arr : arr[i].id = id
  THEN CHOOSE i \in DOMAIN arr :
         arr[i].id = id /\ \A j \in DOMAIN arr : arr[j].id = id => i <= j
  ELSE 0

FoodOnInsert(prev, foodItem) == Append(prev, foodItem)

FoodOnUpdate(prev, oldFood, foodItem) ==
  LET index == FindIndex(prev, oldFood.id)
  IN IF index # 0 THEN [prev EXCEPT ![index] = foodItem] ELSE prev

\* onDelete as splice(findIndex(...), 1): index -1 removes the last element
FoodOnDeleteSplice(prev, foodItem) ==
  LET index == FindIndex(prev, foodItem.id)
      at == IF index # 0 THEN index ELSE Len(prev)
  IN [i \in 1..(Len(prev) - (IF prev = <<>> THEN 0 ELSE 1)) |->
        IF i < at THEN prev[i] ELSE prev[i + 1]]

FoodOnDelete(prev, foodItem) == FoodFilterIdNot(prev, foodItem.id)

FoodIdsOf(arr) == {arr[i].id : i \in DOMAIN arr}

\* ------------------------------------------------ three.js objects and GPU
\* A geometry or material is a handle; live is the set of handles allocated
\* and not disposed, disposed the set of handles dispose() was called on. A
\* new object never takes the handle of an earlier one. A Mesh is named by
\* its uid; the scene holds uids.
RECURSIVE FreshFrom(_, _)
FreshFrom(used, n) == IF n \in used THEN FreshFrom(used, n + 1) ELSE n

Fresh(used) == FreshFrom(used, 1)

Used(st) == st.live \cup st.disposed

\* new THREE.Color(r / 255, g / 255, b / 255) and color.setRGB(...): each
\* component is the quotient <<numerator, denominator>>.
UnitColor(color) ==
  [r |-> <<color.r, 255>>, g |-> <<color.g, 255>>, b |-> <<color.b, 255>>]

NoOps == [geometries |-> 0, materials |-> 0, disposes |-> 0, doubleDisposes |-> 0]

MeshUids(st) ==
  st.scene \cup {st.playerMeshes[k].uid : k \in DOMAIN st.playerMeshes}
           \cup {st.foodMeshes[k].uid : k \in DOMAIN st.foodMeshes}

\* geometry.dispose() / material.dispose()
Dispose(st, h) ==
  [st EXCEPT !.live = @ \ {h},
             !.disposed = @ \cup {h},
             !.ops.disposes = @ + 1,
             !.ops.doubleDisposes = IF h \in st.live THEN @ ELSE @ + 1]

Restrict(f, keep) == [k \in keep |-> f[k]]

\* ------------------------------- player reconciliation (Game.tsx 116-233)
\* PlayerGarbagePass without scene.remove(mesh)
PlayerGarbagePassKeepsInScene(st, players) ==
  LET gone == {k \in DOMAIN st.playerMeshes : ~MapHas(players, k)}
  IN [st EXCEPT !.playerMeshes = Restrict(@, DOMAIN @ \ gone)]

\* Game.tsx 122-128: meshes of keys absent from the snapshot leave the scene
\* and the map.
PlayerGarbagePass(st, players) ==
  LET gone == {k \in DOMAIN st.playerMeshes : ~MapHas(players, k)}
  IN [st EXCEPT !.scene = @ \ {st.playerMeshes[k].uid : k \in gone},
                !.playerMeshes = Restrict(@, DOMAIN @ \ gone)]

RECURSIVE FilterOnline(_)
FilterOnline(m) ==
  IF m = <<>> THEN <<>>
  ELSE IF Head(m).online THEN <<Head(m)>> \o FilterOnline(Tail(m))
       ELSE FilterOnline(Tail(m))

\* Array.prototype.sort is stable: equal radii keep Map order.
RECURSIVE InsertByRadius(_, _)
InsertByRadius(sorted, p) ==
  IF sorted = <<>> THEN <<p>>
  ELSE IF Head(sorted).radius <= p.radius
       THEN <<Head(sorted)>> \o InsertByRadius(Tail(sorted), p)
       ELSE <<p>> \o sorted

RECURSIVE SortByRadius(_)
SortByRadius(m) ==
  IF m = <<>> THEN <<>>
  ELSE InsertByRadius(SortByRadius(SubSeq(m, 1, Len(m) - 1)), m[Len(m)])

\* Game.tsx 131-133
SortedPlayers(players) == SortByRadius(FilterOnline(players))

\* Game.tsx 142-175: no mesh yet for this key
CreatePlayerMesh(st, player) ==
  LET uid == Fresh(MeshUids(st))
      g == Fresh(Used(st))
      m == Fresh(Used(st) \cup {g})
      og == Fresh(Used(st) \cup {g, m})
      om == Fresh(Used(st) \cup {g, m, og})
      mine == player.identity = Me
      mesh == [uid |-> uid,
               geometry |-> [h |-> g, radius |-> player.radius],
               material |-> [h |-> m, color |-> UnitColor(player.color)],
               currentRadius |-> player.radius,
               currentColor |-> player.color,
               outline |-> IF mine
                           THEN <<[geometry |-> [h |-> og,
                                                 inner |-> player.radius,
                                                 outer |-> player.radius + 2],
                                   material |-> [h |-> om]]>>
                           ELSE <<>>,
               position |-> [x |-> 0, y |-> 0, z |-> 0]]
  IN [st EXCEPT !.live = @ \cup (IF mine THEN {g, m, og, om} ELSE {g, m}),
                !.ops.geometries = @ + (IF mine THEN 2 ELSE 1),
                !.ops.materials = @ + (IF mine THEN 2 ELSE 1),
                !.myPlayerRef = IF mine THEN <<player>> ELSE @,
                !.scene = @ \cup {uid},
                !.playerMeshes = [k \in DOMAIN @ \cup {player.identity} |->
                                    IF k = player.identity THEN mesh ELSE @[k]]]

\* NeedsRadiusUpdate with < in place of !==
NeedsRadiusUpdateOnGrowth(mesh, player) == mesh.currentRadius < player.radius

\* Game.tsx 178: (mesh as any).currentRadius !== player.radius
NeedsRadiusUpdate(mesh, player) == mesh.currentRadius # player.radius

\* Game.tsx 183-189
NeedsColorUpdate(mesh, player) ==
  \/ mesh.currentColor.r # player.color.r
  \/ mesh.currentColor.g # player.color.g
  \/ mesh.currentColor.b # player.color.b

\* RebuildGeometry with the new CircleGeometry never assigned to mesh.geometry
RebuildGeometryKeepsOld(st, player) ==
  LET id == player.identity
      s1 == Dispose(st, st.playerMeshes[id].geometry.h)
      g == Fresh(Used(s1))
  IN [s1 EXCEPT !.live = @ \cup {g}, !.ops.geometries = @ + 1]

\* Game.tsx 196-217: dispose the old geometry, allocate the new one; for the
\* local identity the same for the outline ring.
RebuildGeometry(st, player) ==
  LET id == player.identity
      s1 == Dispose(st, st.playerMeshes[id].geometry.h)
      g == Fresh(Used(s1))
      s2 == [s1 EXCEPT !.live = @ \cup {g},
                       !.ops.geometries = @ + 1,
                       !.playerMeshes[id].geometry =
                          [h |-> g, radius |-> player.radius]]
      outline == s2.playerMeshes[id].outline
  IN IF id = Me /\ outline # <<>>
     THEN LET s3 == Dispose(s2, outline[1].geometry.h)
              og == Fresh(Used(s3))
          IN [s3 EXCEPT !.live = @ \cup {og},
                        !.ops.geometries = @ + 1,
                        !.playerMeshes[id].outline =
                           <<[outline[1] EXCEPT !.geometry =
                                [h |-> og, inner |-> player.radius,
                                 outer |-> player.radius + 2]]>>]
     ELSE s2

\* UpdatePlayerMesh without the write of the cached currentRadius
UpdatePlayerMeshNoCache(st, player) ==
  LET id == player.identity
      mesh == st.playerMeshes[id]
      needsRadiusUpdate == NeedsRadiusUpdate(mesh, player)
      needsColorUpdate == NeedsColorUpdate(mesh, player)
      s1 == [st EXCEPT !.playerMeshes[id].currentColor =
                          IF needsColorUpdate THEN player.color ELSE @]
      s2 == IF needsRadiusUpdate THEN RebuildGeometry(s1, player) ELSE s1
  IN IF needsColorUpdate
     THEN [s2 EXCEPT !.playerMeshes[id].material.color = UnitColor(player.color)]
     ELSE s2

\* Game.tsx 176-228: a mesh exists for this key
UpdatePlayerMesh(st, player) ==
  LET id == player.identity
      mesh == st.playerMeshes[id]
      needsRadiusUpdate == NeedsRadiusUpdate(mesh, player)
      needsColorUpdate == NeedsColorUpdate(mesh, player)
      s1 == [st EXCEPT !.playerMeshes[id].currentRadius =
                          IF needsRadiusUpdate THEN player.radius ELSE @,
                       !.playerMeshes[id].currentColor =
                          IF needsColorUpdate THEN player.color ELSE @]
      s2 == IF needsRadiusUpdate THEN RebuildGeometry(s1, player) ELSE s1
  IN IF needsColorUpdate
     THEN [s2 EXCEPT !.playerMeshes[id].material.color = UnitColor(player.color)]
     ELSE s2

\* Game.tsx 135-232: one iteration of the loop over sortedPlayers
UpsertPlayer(st, player) ==
  LET s1 == IF player.identity \in DOMAIN st.playerMeshes
            THEN UpdatePlayerMesh(st, player)
            ELSE CreatePlayerMesh(st, player)
  IN [s1 EXCEPT !.playerMeshes[player.identity].position =
                   [x |-> player.position.x, y |-> player.position.y, z |-> 0]]

RECURSIVE PlayerUpsertPass(_, _)
PlayerUpsertPass(st, sorted) ==
  IF sorted = <<>> THEN st
  ELSE PlayerUpsertPass(UpsertPlayer(st, Head(sorted)), Tail(sorted))

\* Game.tsx 116-233
ReconcilePlayers(st, players) ==
  PlayerUpsertPass(PlayerGarbagePass(st, players), SortedPlayers(players))

\* --------------------------------- food reconciliation (Game.tsx 236-279)
RECURSIVE DisposeFoodMeshes(_, _)
DisposeFoodMeshes(st, gone) ==
  IF gone = {} THEN st
  ELSE LET k == CHOOSE x \in gone : \A y \in gone : x <= y
           mesh == st.foodMeshes[k]
           s1 == [st EXCEPT !.scene = @ \ {mesh.uid}]
           s2 == Dispose(Dispose(s1, mesh.geometry.h), mesh.material.h)
       IN DisposeFoodMeshes(
            [s2 EXCEPT !.foodMeshes = Restrict(@, DOMAIN @ \ {k})], gone \ {k})

\* FoodGarbagePass with the effect returning early on an empty array
FoodGarbagePassSkipsEmpty(st, food) ==
  IF food = <<>> THEN st
  ELSE DisposeFoodMeshes(st, {k \in DOMAIN st.foodMeshes : k \notin FoodIdsOf(food)})

\* Game.tsx 242-253
FoodGarbagePass(st, food) ==
  LET currentFoodIds == FoodIdsOf(food)
  IN DisposeFoodMeshes(st, {k \in DOMAIN st.foodMeshes : k \notin currentFoodIds})

\* Game.tsx 259-274
CreateFoodMesh(st, foodItem) ==
  LET uid == Fresh(MeshUids(st))
      g == Fresh(Used(st))
      m == Fresh(Used(st) \cup {g})
      mesh == [uid |-> uid,
               geometry |-> [h |-> g, radius |-> FOOD_RADIUS],
               material |-> [h |-> m, color |-> UnitColor(foodItem.color)],
               position |-> [x |-> 0, y |-> 0, z |-> -5]]
  IN [st EXCEPT !.live = @ \cup {g, m},
                !.ops.geometries = @ + 1,
                !.ops.materials = @ + 1,
                !.scene = @ \cup {uid},
                !.foodMeshes = [k \in DOMAIN @ \cup {foodItem.id} |->
                                  IF k = foodItem.id THEN mesh ELSE @[k]]]

\* Game.tsx 256-278: one iteration of the loop over food; z is in tenths
UpsertFood(st, foodItem) ==
  LET s1 == IF foodItem.id \in DOMAIN st.foodMeshes THEN st
            ELSE CreateFoodMesh(st, foodItem)
  IN [s1 EXCEPT !.foodMeshes[foodItem.id].position =
                   [x |-> foodItem.position.x, y |-> foodItem.position.y,
                    z |-> -5]]

RECURSIVE FoodUpsertPass(_, _)
FoodUpsertPass(st, food) ==
  IF food = <<>> THEN st
  ELSE FoodUpsertPass(UpsertFood(st, Head(food)), Tail(food))

\* Game.tsx 236-279
ReconcileFood(st, food) == FoodUpsertPass(FoodGarbagePass(st, food), food)

\* ------------------------------------------- scene teardown (Game.tsx 98-112)
\* The Meshes scene.traverse visits: a Mesh enters the scene with its map
\* entry (174-175, 272-273) and leaves it with its map entry (125-126,
\* 246-251), so the Meshes attached are those of the maps whose uid the scene
\* holds. The background grid is a LineSegments, not a Mesh.
SceneMeshes(st) ==
  {[uid |-> st.playerMeshes[k].uid,
    handles |-> <<st.playerMeshes[k].geometry.h, st.playerMeshes[k].material.h>>
                  \o (IF st.playerMeshes[k].outline # <<>>
                      THEN <<st.playerMeshes[k].outline[1].geometry.h,
                             st.playerMeshes[k].outline[1].material.h>>
                      ELSE <<>>)] :
     k \in {j \in DOMAIN st.playerMeshes : st.playerMeshes[j].uid \in st.scene}}
    \cup
  {[uid |-> st.foodMeshes[k].uid,
    handles |-> <<st.foodMeshes[k].geometry.h, st.foodMeshes[k].material.h>>] :
     k \in {j \in DOMAIN st.foodMeshes : st.foodMeshes[j].uid \in st.scene}}

\* Game.tsx 104-109 for a Mesh and then its child (the outline is a Mesh):
\* geometry.dispose(), material.dispose()
RECURSIVE DisposeAll(_, _)
DisposeAll(st, handles) ==
  IF handles = <<>> THEN st
  ELSE DisposeAll(Dispose(st, Head(handles)), Tail(handles))

RECURSIVE TraverseDispose(_, _)
TraverseDispose(st, meshes) ==
  IF meshes = {} THEN st
  ELSE LET mesh == CHOOSE m \in meshes : \A o \in meshes : m.uid <= o.uid
       IN TraverseDispose(DisposeAll(st, mesh.handles), meshes \ {mesh})

Teardown(st) == TraverseDispose(st, SceneMeshes(st))

\* ------------------------------------------- key handlers (Game.tsx 282-303)
\* event.key values the platform delivers, and String.prototype.toLowerCase
KeyNames == {"w", "a", "s", "d", "W", "D", "x"}

ToLowerCase(key) ==
  CASE key = "W" -> "w"
    [] key = "D" -> "d"
    [] OTHER -> key

\* HandleKeyDown without the ["w", "a", "s", "d"].includes(key) test
HandleKeyDownAnyKey(held, eventKey) == held \cup {ToLowerCase(eventKey)}

HandleKeyDown(held, eventKey) ==
  LET key == ToLowerCase(eventKey)
  IN IF key \in {"w", "a", "s", "d"} THEN held \cup {key} ELSE held

HandleKeyUp(held, eventKey) == held \ {ToLowerCase(eventKey)}

\* ------------------------------------------------ gameLoop (Game.tsx 309-381)
Min(a, b) == IF a < b THEN a ELSE b
Max(a, b) == IF a > b THEN a ELSE b

\* Elapsed wall-clock milliseconds between two runs of gameLoop.
ElapsedMs == {0, 100}

\* MOVE_SPEED * deltaTime, deltaTime = elapsed / 1000 seconds
MoveStep(elapsed) == (MOVE_SPEED * elapsed) \div 1000

\* DeltaX with "a" taking precedence over "d" (else-if)
DeltaXLeftWins(held, elapsed) ==
  IF "a" \in held THEN -MoveStep(elapsed)
  ELSE IF "d" \in held THEN MoveStep(elapsed) ELSE 0

\* Game.tsx 316-322
DeltaX(held, elapsed) ==
  (IF "d" \in held THEN MoveStep(elapsed) ELSE 0)
    - (IF "a" \in held THEN MoveStep(elapsed) ELSE 0)

DeltaY(held, elapsed) ==
  (IF "w" \in held THEN MoveStep(elapsed) ELSE 0)
    - (IF "s" \in held THEN MoveStep(elapsed) ELSE 0)

\* NewPosition with the y axis left unclamped
NewPositionUnclampedY(position, deltaX, deltaY) ==
  [x |-> Max(-(WORLD_SIZE \div 2), Min(WORLD_SIZE \div 2, position.x + deltaX)),
   y |-> position.y + deltaY]

\* Game.tsx 327-336
NewPosition(position, deltaX, deltaY) ==
  [x |-> Max(-(WORLD_SIZE \div 2), Min(WORLD_SIZE \div 2, position.x + deltaX)),
   y |-> Max(-(WORLD_SIZE \div 2), Min(WORLD_SIZE \div 2, position.y + deltaY))]

\* CameraTarget with targetY left unclamped
CameraTargetUnclampedY(position) ==
  [x |-> Max(-(WORLD_SIZE \div 2) + CAMERA_SIZE,
             Min((WORLD_SIZE \div 2) - CAMERA_SIZE, position.x)),
   y |-> position.y]

\* Game.tsx 349-367
CameraTarget(position) ==
  LET cameraHalfWidth == CAMERA_SIZE
      cameraHalfHeight == CAMERA_SIZE
      worldHalfSize == WORLD_SIZE \div 2
      minCameraX == -worldHalfSize + cameraHalfWidth
      maxCameraX == worldHalfSize - cameraHalfWidth
      minCameraY == -worldHalfSize + cameraHalfHeight
      maxCameraY == worldHalfSize - cameraHalfHeight
  IN [x |-> Max(minCameraX, Min(maxCameraX, position.x)),
      y |-> Max(minCameraY, Min(maxCameraY, position.y))]

\* One run of gameLoop with the players Map its closure captured. The result
\* holds the locals of the run (frame), the argument of
\* conn.reducers.playerMoved if it was called (frame.sent), and the refs
\* the run wrote.
\* TickSteps with the camera block placed above the movement block
TickStepsCameraFirst(sends, follows) ==
  <<"sample">> \o (IF follows THEN <<"camera">> ELSE <<>>)
               \o (IF sends THEN <<"send">> ELSE <<>>)
               \o <<"render">>

\* The statements a run executes, in source order: the Date.now() sample
\* (310-312), conn.reducers.playerMoved (339), the camera write (369-370),
\* renderer.render (377).
TickSteps(sends, follows) ==
  <<"sample">> \o (IF sends THEN <<"send">> ELSE <<>>)
               \o (IF follows THEN <<"camera">> ELSE <<>>)
               \o <<"render">>

GameLoop(closurePlayers, held, myRef, cam, elapsed) ==
  LET deltaX == IF myRef # <<>> /\ held # {} THEN DeltaX(held, elapsed) ELSE 0
      deltaY == IF myRef # <<>> /\ held # {} THEN DeltaY(held, elapsed) ELSE 0
      currentPlayer == MapGet(closurePlayers, Me)
      sends == /\ myRef # <<>>
               /\ held # {}
               /\ (deltaX # 0 \/ deltaY # 0)
               /\ currentPlayer # <<>>
      follows == myRef # <<>> /\ currentPlayer # <<>>
  IN [frame |-> [deltaTime |-> elapsed,
                 held |-> held,
                 currentPlayer |-> currentPlayer,
                 sent |-> IF sends
                          THEN <<NewPosition(currentPlayer[1].position,
                                             deltaX, deltaY)>>
                          ELSE <<>>,
                 steps |-> TickSteps(sends, follows)],
      camera |-> IF follows THEN CameraTarget(currentPlayer[1].position)
                 ELSE cam,
      myPlayerRef |-> IF follows THEN currentPlayer ELSE myRef]

\* ------------------------------------------------------------------ state
VARIABLES
  players,         \* usePlayer state: the latest Map
  food,            \* useFood state: the latest array
  playersProp,     \* contents of the Map Game was last rendered with
  playersChanged,  \* the players state is a Map not yet rendered
  foodChanged,     \* the food state is an array not yet rendered
  playerMeshes,    \* playerMeshesRef.current: key -> Mesh
  foodMeshes,      \* foodMeshesRef.current: id -> Mesh
  scene,           \* uids of the Meshes attached to the scene
  live,            \* geometries and materials allocated and not disposed
  disposed,        \* geometries and materials dispose() was called on
  lastRun,         \* allocation/disposal counts of each effect's last run
  keys,            \* keysRef.current
  myPlayerRef,     \* myPlayerRef.current
  camera,          \* cameraRef.current.position (x, y)
  frame,           \* locals of the last run of gameLoop
  rafPending,      \* animation-frame requests not yet run or cancelled
  notes,           \* notifications delivered so far
  mounted          \* Game is mounted

vars == <<players, food, playersProp, playersChanged, foodChanged,
          playerMeshes, foodMeshes, scene, live, disposed, lastRun, keys,
          myPlayerRef, camera, frame, rafPending, notes, mounted>>

storeVars == <<players, food, playersProp, playersChanged, foodChanged, notes>>
renderVars == <<playerMeshes, foodMeshes, scene, live, disposed, lastRun>>
loopVars == <<myPlayerRef, camera, frame, rafPending>>

NoFrame ==
  [deltaTime |-> 0, held |-> {}, currentPlayer |-> <<>>, sent |-> <<>>,
   steps |-> TickSteps(FALSE, FALSE)]

\* What the effects of Game read and write through the refs.
RenderState ==
  [playerMeshes |-> playerMeshes, foodMeshes |-> foodMeshes, scene |-> scene,
   live |-> live, disposed |-> disposed, ops |-> NoOps,
   myPlayerRef |-> myPlayerRef]

\* Game mounted with empty tables: the scene effect made the camera at
\* (0, 0), the loop effect ran gameLoop once and requested a frame.
Init ==
  /\ players = <<>>
  /\ food = <<>>
  /\ playersProp = <<>>
  /\ playersChanged = FALSE
  /\ foodChanged = FALSE
  /\ playerMeshes = <<>>
  /\ foodMeshes = <<>>
  /\ scene = {}
  /\ live = {}
  /\ disposed = {}
  /\ lastRun = [players |-> <<>>, food |-> <<>>, teardown |-> <<>>]
  /\ keys = {}
  /\ myPlayerRef = <<>>
  /\ camera = [x |-> 0, y |-> 0]
  /\ frame = NoFrame
  /\ rafPending = 1
  /\ notes = 0
  /\ mounted = TRUE

\* ----------------------------------------------------------- notifications
\* setPlayers / setFood with an updater. An updater queued while the
\* component has no pending update runs at once, on the rendered Map itself;
\* otherwise it runs when the next render starts, and what it does to the
\* rendered Map then is seen by nobody.
RunsAtOnce == ~playersChanged /\ ~foodChanged

PlayerInsert(player) ==
  /\ notes < MaxNotes
  /\ players' = PlayerOnInsert(players, player)
  /\ playersChanged' = TRUE
  /\ notes' = notes + 1
  /\ UNCHANGED <<food, foodChanged, playersProp, keys>>
  /\ UNCHANGED renderVars
  /\ UNCHANGED loopVars
  /\ UNCHANGED mounted

PlayerUpdate(oldPlayer, player) ==
  /\ notes < MaxNotes
  /\ players' = PlayerOnUpdate(players, oldPlayer, player)
  /\ playersProp' = IF RunsAtOnce
                    THEN PlayerPrevAfterUpdate(playersProp, oldPlayer)
                    ELSE playersProp
  /\ playersChanged' = TRUE
  /\ notes' = notes + 1
  /\ UNCHANGED <<food, foodChanged, keys>>
  /\ UNCHANGED renderVars
  /\ UNCHANGED loopVars
  /\ UNCHANGED mounted

PlayerDelete(player) ==
  /\ notes < MaxNotes
  /\ players' = PlayerOnDelete(players, player)
  /\ playersProp' = IF RunsAtOnce
                    THEN PlayerPrevAfterDelete(playersProp, player)
                    ELSE playersProp
  /\ playersChanged' = TRUE
  /\ notes' = notes + 1
  /\ UNCHANGED <<food, foodChanged, keys>>
  /\ UNCHANGED renderVars
  /\ UNCHANGED loopVars
  /\ UNCHANGED mounted

FoodInsert(foodItem) ==
  /\ notes < MaxNotes
  /\ Len(food) < MaxFood
  /\ food' = FoodOnInsert(food, foodItem)
  /\ foodChanged' = TRUE
  /\ notes' = notes + 1
  /\ UNCHANGED <<players, playersProp, playersChanged, keys>>
  /\ UNCHANGED renderVars
  /\ UNCHANGED loopVars
  /\ UNCHANGED mounted

\* An updater that returns prev leaves the state the same array.
FoodUpdate(oldFood, foodItem) ==
  /\ notes < MaxNotes
  /\ food' = FoodOnUpdate(food, oldFood, foodItem)
  /\ foodChanged' = (foodChanged \/ FindIndex(food, oldFood.id) # 0)
  /\ notes' = notes + 1
  /\ UNCHANGED <<players, playersProp, playersChanged, keys>>
  /\ UNCHANGED renderVars
  /\ UNCHANGED loopVars
  /\ UNCHANGED mounted

FoodDelete(foodItem) ==
  /\ notes < MaxNotes
  /\ food' = FoodOnDelete(food, foodItem)
  /\ foodChanged' = TRUE
  /\ notes' = notes + 1
  /\ UNCHANGED <<players, playersProp, playersChanged, keys>>
  /\ UNCHANGED renderVars
  /\ UNCHANGED loopVars
  /\ UNCHANGED mounted

\* ---------------------------------------------------------------- key events
KeyDown(eventKey) ==
  /\ mounted
  /\ keys' = HandleKeyDown(keys, eventKey)
  /\ UNCHANGED storeVars
  /\ UNCHANGED renderVars
  /\ UNCHANGED loopVars
  /\ UNCHANGED mounted

KeyUp(eventKey) ==
  /\ mounted
  /\ keys' = HandleKeyUp(keys, eventKey)
  /\ UNCHANGED storeVars
  /\ UNCHANGED renderVars
  /\ UNCHANGED loopVars
  /\ UNCHANGED mounted

\* ---------------------------------- animation-frame requests (Game.tsx 380-389)
\* requestAnimationFrame(gameLoop) at the end of a run (380)
RequestAnimationFrame(pending) == pending + 1

\* The loop effect's cleanup without the call of cancelAnimationFrame
CancelAnimationFrameSkipped(pending) == pending

\* The loop effect's cleanup (385-389): animationId holds the request the
\* last run of this closure's gameLoop made, which has not run yet.
CancelAnimationFrame(pending) == IF pending > 0 THEN pending - 1 ELSE pending

\* RafTick with the sent position also written into the players state
RafTickWritesStore(elapsed) ==
  /\ rafPending > 0
  /\ LET r == GameLoop(playersProp, keys, myPlayerRef, camera, elapsed)
     IN /\ frame' = r.frame
        /\ camera' = r.camera
        /\ myPlayerRef' = r.myPlayerRef
        /\ players' = IF r.frame.sent # <<>> /\ MapHas(players, Me)
                      THEN MapSet(players, Me,
                                  [MapGet(players, Me)[1] EXCEPT
                                     !.position = r.frame.sent[1]])
                      ELSE players
  /\ rafPending' = RequestAnimationFrame(rafPending - 1)
  /\ UNCHANGED <<keys, food, playersProp, playersChanged, foodChanged, notes>>
  /\ UNCHANGED renderVars
  /\ UNCHANGED mounted

\* ------------------------------------------------- animation-frame callback
\* The pending request runs gameLoop, which requests the next frame.
RafTick(elapsed) ==
  /\ rafPending > 0
  /\ LET r == GameLoop(playersProp, keys, myPlayerRef, camera, elapsed)
     IN /\ frame' = r.frame
        /\ camera' = r.camera
        /\ myPlayerRef' = r.myPlayerRef
  /\ rafPending' = RequestAnimationFrame(rafPending - 1)
  /\ UNCHANGED keys
  /\ UNCHANGED storeVars
  /\ UNCHANGED renderVars
  /\ UNCHANGED mounted

\* ------------------------------------------- render and effects of Game
\* Game renders with the latest state; then the effects whose dependency
\* changed run in source order: players (116), food (236), loop (306). The
\* loop effect's cleanup cancels its request, its body runs gameLoop with
\* the new closure, which requests a frame.
Commit(elapsed) ==
  /\ mounted
  /\ playersChanged \/ foodChanged
  /\ LET st0 == [playerMeshes |-> playerMeshes, foodMeshes |-> foodMeshes,
                 scene |-> scene, live |-> live, disposed |-> disposed,
                 ops |-> NoOps, myPlayerRef |-> myPlayerRef]
         st1 == IF playersChanged THEN ReconcilePlayers(st0, players) ELSE st0
         st2 == IF foodChanged
                THEN ReconcileFood([st1 EXCEPT !.ops = NoOps], food)
                ELSE st1
     IN /\ playerMeshes' = st2.playerMeshes
        /\ foodMeshes' = st2.foodMeshes
        /\ scene' = st2.scene
        /\ live' = st2.live
        /\ disposed' = st2.disposed
        /\ lastRun' = [players |-> IF playersChanged THEN <<st1.ops>> ELSE <<>>,
                       food |-> IF foodChanged THEN <<st2.ops>> ELSE <<>>,
                       teardown |-> <<>>]
        /\ IF playersChanged
           THEN LET r == GameLoop(players, keys, st2.myPlayerRef, camera,
                                  elapsed)
                IN /\ frame' = r.frame
                   /\ camera' = r.camera
                   /\ myPlayerRef' = r.myPlayerRef
                   /\ rafPending' = RequestAnimationFrame(
                                       CancelAnimationFrame(rafPending))
           ELSE /\ myPlayerRef' = st2.myPlayerRef
                /\ UNCHANGED <<frame, camera, rafPending>>
  /\ playersProp' = players
  /\ playersChanged' = FALSE
  /\ foodChanged' = FALSE
  /\ UNCHANGED <<players, food, notes, keys, mounted>>

\* ------------------------------------------------------------------ unmount
\* Game leaves the tree (App.tsx 146-153). The cleanups run in source order:
\* the scene effect's (98-112) disposes what the scene holds, the key
\* effect's (299-302) detaches the listeners, the loop effect's (385-389)
\* cancels the pending request. The refs keep their contents.
Unmount ==
  /\ mounted
  /\ mounted' = FALSE
  /\ LET st == Teardown(RenderState)
     IN /\ live' = st.live
        /\ disposed' = st.disposed
        /\ lastRun' = [players |-> <<>>, food |-> <<>>, teardown |-> <<st.ops>>]
  /\ rafPending' = CancelAnimationFrame(rafPending)
  /\ UNCHANGED <<playerMeshes, foodMeshes, scene, keys, myPlayerRef, camera,
                 frame>>
  /\ UNCHANGED storeVars

\* ------------------------------------------------------------ specifications
PlayerNotification(rows) ==
  \/ \E p \in rows : PlayerInsert(p)
  \/ \E p \in rows : PlayerUpdate(p, p)
  \/ \E p \in rows : PlayerDelete(p)

FoodNotification(rows) ==
  \/ \E f \in rows : FoodInsert(f)
  \/ \E f \in rows : FoodUpdate(f, f)
  \/ \E f \in rows : FoodDelete(f)

\* Notifications and the render that follows them; no key is ever pressed.
SyncNext ==
  \/ PlayerNotification(SyncPlayerRows)
  \/ FoodNotification(SyncFoodRows)
  \/ \E elapsed \in {100} : Commit(elapsed)

SpecSync == Init /\ [][SyncNext]_vars

\* Key events, animation frames, and notifications about the local player.
LoopNext ==
  \/ PlayerNotification(LoopPlayerRows)
  \/ \E elapsed \in ElapsedMs : Commit(elapsed)
  \/ \E elapsed \in ElapsedMs : RafTick(elapsed)
  \/ \E k \in KeyNames : KeyDown(k)
  \/ \E k \in KeyNames : KeyUp(k)

SpecLoop == Init /\ [][LoopNext]_vars

\* The frame loop beside both kinds of notification, one movement key.
FrameFoodRows == {FoodRow(7, Pos(450, 450), Red)}

FrameNext ==
  \/ PlayerNotification(LoopPlayerRows)
  \/ FoodNotification(FrameFoodRows)
  \/ \E elapsed \in {100} : Commit(elapsed)
  \/ \E elapsed \in {100} : RafTick(elapsed)
  \/ KeyDown("d")
  \/ KeyUp("d")

SpecFrame == Init /\ [][FrameNext]_vars

\* The local player on the world's right edge and near it, keys a and d.
EdgePlayerRows ==
  {PlayerRow("me", Pos(500, 0), 10, Red, TRUE),
   PlayerRow("me", Pos(480, 0), 10, Red, TRUE)}

EdgeNext ==
  \/ PlayerNotification(EdgePlayerRows)
  \/ \E elapsed \in ElapsedMs : Commit(elapsed)
  \/ \E elapsed \in ElapsedMs : RafTick(elapsed)
  \/ \E k \in {"a", "d"} : KeyDown(k)
  \/ \E k \in {"a", "d"} : KeyUp(k)

SpecEdge == Init /\ [][EdgeNext]_vars

\* Notifications, renders, and the unmount of Game at any moment.
TeardownNext ==
  \/ PlayerNotification(SyncPlayerRows)
  \/ FoodNotification(SyncFoodRows)
  \/ \E elapsed \in {100} : Commit(elapsed)
  \/ Unmount

SpecTeardown == Init /\ [][TeardownNext]_vars

\* The frame loop beside notifications, and the unmount of Game at any moment.
LifeNext ==
  \/ FrameNext
  \/ Unmount

SpecLife == Init /\ [][LifeNext]_vars

Next == SyncNext \/ LoopNext \/ FrameNext \/ EdgeNext \/ TeardownNext \/ LifeNext

Spec == Init /\ [][Next]_vars

\* ===================================================================== claims
OnlineKeys(m) == {m[i].identity : i \in {j \in DOMAIN m : m[j].online}}

\* C1: once the player effect has run on the latest players Map, the keys of
\* playerMeshes are exactly the keys of the players that are stored and
\* online; a stored offline player owns no mesh.
C1_OwnedPlayersAreOnline ==
  ~playersChanged => DOMAIN playerMeshes = OnlineKeys(players)

\* C2: once the food effect has run on the latest food array, the keys of
\* foodMeshes are exactly the ids in the array; on the empty array nothing is
\* owned and running the effect again allocates, disposes and changes nothing.
C2_OwnedFoodIsStoredFood ==
  ~foodChanged =>
    /\ DOMAIN foodMeshes = FoodIdsOf(food)
    /\ food = <<>> =>
         /\ DOMAIN foodMeshes = {}
         /\ ReconcileFood(RenderState, food) = RenderState

\* C2 witness: the food effect ran on an emptied array and its garbage pass
\* disposed the geometry and material of the one mesh that was owned.
C2_Witness ==
  /\ ~foodChanged
  /\ food = <<>>
  /\ lastRun.food # <<>>
  /\ lastRun.food[1].disposes = 2
  /\ DOMAIN foodMeshes = {}

\* C3: once both effects have run on the latest state, every owned mesh has
\* the radius and color of the row stored under its key (for food: the color
\* of the first row with that id).
C3_AppliedEqualsStored ==
  (~playersChanged /\ ~foodChanged) =>
    /\ \A k \in DOMAIN playerMeshes :
         MapHas(players, k) =>
           /\ playerMeshes[k].geometry.radius = MapGet(players, k)[1].radius
           /\ playerMeshes[k].material.color
                = UnitColor(MapGet(players, k)[1].color)
    /\ \A id \in DOMAIN foodMeshes :
         FindIndex(food, id) # 0 =>
           foodMeshes[id].material.color
             = UnitColor(food[FindIndex(food, id)].color)

OwnedHandles ==
  UNION {{playerMeshes[k].geometry.h, playerMeshes[k].material.h}
           \cup UNION {{o.geometry.h, o.material.h} :
                         o \in {playerMeshes[k].outline[i] :
                                  i \in DOMAIN playerMeshes[k].outline}}
         : k \in DOMAIN playerMeshes}
    \cup UNION {{foodMeshes[k].geometry.h, foodMeshes[k].material.h}
                : k \in DOMAIN foodMeshes}

\* C4: every geometry and material that is allocated and not disposed belongs
\* to a mesh (or its outline) that is still in playerMeshes or foodMeshes.
C4_LiveHandlesAreOwned == live \subseteq OwnedHandles

\* C5: running an effect again on the Map or array it last ran on allocates
\* no geometry, allocates no material, disposes nothing, and leaves the mesh
\* maps, the cached radius and color, the scene and the live handles as they
\* are.
C5_ReconcileIdempotent ==
  /\ ~playersChanged => ReconcilePlayers(RenderState, players) = RenderState
  /\ ~foodChanged => ReconcileFood(RenderState, food) = RenderState

\* C5 witness: the player effect ran again on a Map that holds only the local
\* player, online with radius 20, whose mesh was already owned at that
\* radius, and that run allocated and disposed nothing.
C5_Witness ==
  /\ ~playersChanged
  /\ notes >= 2
  /\ players = <<PlayerRow("me", Pos(500, -600), 20, Red, TRUE)>>
  /\ Me \in DOMAIN playerMeshes
  /\ playerMeshes[Me].currentRadius = 20
  /\ lastRun.players = <<NoOps>>

\* C6: no two entries of the players Map share an identity and no two
\* entries of the food array share an id.
C6_OneEntryPerKey ==
  /\ \A i, j \in DOMAIN players :
       players[i].identity = players[j].identity => i = j
  /\ \A i, j \in DOMAIN food : food[i].id = food[j].id => i = j

\* C7: whatever is stored, the update updater handed a row whose key is not
\* stored returns a state that holds that row under its key, for players
\* and for food.
C7_UpdateOfUnknownKeyInserts ==
  /\ \A p \in SyncPlayerRows :
       ~MapHas(players, p.identity) =>
         MapGet(PlayerOnUpdate(players, p, p), p.identity) = <<p>>
  /\ \A f \in SyncFoodRows :
       f.id \notin FoodIdsOf(food) =>
         \E i \in DOMAIN FoodOnUpdate(food, f, f) :
           FoodOnUpdate(food, f, f)[i] = f

\* C8: a delete notification for a key that is not stored leaves the stored
\* entries as they are, and a second delete of the same row right after a
\* first changes nothing more, for players and for food.
C8_DeleteIdempotent ==
  [][/\ \A p \in SyncPlayerRows :
          PlayerDelete(p) =>
            /\ ~MapHas(players, p.identity) => players' = players
            /\ PlayerOnDelete(players', p) = players'
     /\ \A f \in SyncFoodRows :
          FoodDelete(f) =>
            /\ f.id \notin FoodIdsOf(food) => food' = food
            /\ FoodOnDelete(food', f) = food']_vars

\* C8 witness: the one notification delivered so far was a food delete on
\* the empty array (no other notification leaves the array empty and marked
\* as changed); the array is still empty.
C8_Witness ==
  /\ notes = 1
  /\ foodChanged
  /\ food = <<>>
  /\ players = <<>>
  /\ ~playersChanged

\* C9: the players Map and the food array change only in a step that
\* delivers a notification; an animation frame (with its outbound send), a
\* render with its effects, and a key event leave both as they are.
C9_StoreChangesOnlyInNotifications ==
  [][notes' = notes => (players' = players /\ food' = food)]_vars

\* C9 witness: a frame sent a predicted position that differs from the
\* stored one, after the player effect and the food effect both ran.
C9_Witness ==
  /\ frame.sent # <<>>
  /\ MapHas(players, Me)
  /\ MapGet(players, Me)[1].position # frame.sent[1]
  /\ Me \in DOMAIN playerMeshes
  /\ 7 \in DOMAIN foodMeshes

Clamp(v, lo, hi) == IF v < lo THEN lo ELSE IF v > hi THEN hi ELSE v

Sign(held, plus, minus) ==
  (IF plus \in held THEN 1 ELSE 0) - (IF minus \in held THEN 1 ELSE 0)

\* The position the claim predicts from a stored position, the held keys and
\* the elapsed milliseconds.
Predicted(position, held, elapsed) ==
  [x |-> Clamp(position.x
                 + ((MOVE_SPEED * elapsed) \div 1000) * Sign(held, "d", "a"),
               -500, 500),
   y |-> Clamp(position.y
                 + ((MOVE_SPEED * elapsed) \div 1000) * Sign(held, "w", "s"),
               -500, 500)]

SentIsPredictedFrom(m) ==
  /\ MapHas(m, Me)
  /\ frame'.sent[1]
       = Predicted(MapGet(m, Me)[1].position, keys, frame'.deltaTime)
  /\ frame'.sent[1].x \in -500..500
  /\ frame'.sent[1].y \in -500..500

\* C10 as stated: every position a run of gameLoop sends is the prediction
\* from the local player's position in the players state (the store) at that
\* moment.
C10_SentIsPredictedFromStore ==
  [][frame'.sent # <<>> =>
       /\ RafTick(frame'.deltaTime) => SentIsPredictedFrom(players)
       /\ (playersChanged /\ Commit(frame'.deltaTime))
            => SentIsPredictedFrom(players)]_vars

\* C10 amended: every position a run of gameLoop sends is the prediction
\* from the local player's position in the players Map that run's closure
\* captured (the Map Game was last rendered with), and lies in [-500, 500]
\* on both axes.
C10_SentIsPredictedFromClosure ==
  [][frame'.sent # <<>> =>
       /\ RafTick(frame'.deltaTime) => SentIsPredictedFrom(playersProp)
       /\ (playersChanged /\ Commit(frame'.deltaTime))
            => SentIsPredictedFrom(players)]_vars

\* C10 witness: stored (450, 450), key d held, 0.1 s elapsed: (470, 450) sent.
C10_Witness ==
  /\ frame.sent = <<Pos(470, 450)>>
  /\ frame.held = {"d"}
  /\ frame.deltaTime = 100
  /\ frame.currentPlayer # <<>>
  /\ frame.currentPlayer[1].position = Pos(450, 450)

\* Elapsed milliseconds the delta operators are evaluated on.
AnyElapsed == {0, 16, 100, 1000}

\* C11: with a and d both held the x delta is zero and with w and s both
\* held the y delta is zero, for every elapsed time; and a run of gameLoop in
\* which both net deltas are zero (zero elapsed time, no key held, or only
\* cancelling pairs held) called conn.reducers.playerMoved with nothing.
C11_CancellingKeysSendNothing ==
  /\ \A elapsed \in AnyElapsed :
       /\ {"a", "d"} \subseteq keys => DeltaX(keys, elapsed) = 0
       /\ {"w", "s"} \subseteq keys => DeltaY(keys, elapsed) = 0
  /\ (\/ frame.deltaTime = 0
      \/ /\ Sign(frame.held, "d", "a") = 0
         /\ Sign(frame.held, "w", "s") = 0)
       => frame.sent = <<>>

\* C11 witness: gameLoop ran 0.1 s after the previous run with all four keys
\* held, the local player known and stored, and sent nothing.
C11_Witness ==
  /\ frame.held = {"w", "a", "s", "d"}
  /\ frame.deltaTime = 100
  /\ frame.currentPlayer # <<>>
  /\ myPlayerRef # <<>>
  /\ frame.sent = <<>>

\* C12: the camera center is in [-100, 100] on both axes in every state, so
\* the rectangle center +/- 400 it shows stays inside the world [-500, 500],
\* whatever position the backend reports for the local player.
C12_CameraInsideWorld ==
  /\ camera.x \in -100..100
  /\ camera.y \in -100..100
  /\ camera.x - CAMERA_SIZE >= -(WORLD_SIZE \div 2)
  /\ camera.x + CAMERA_SIZE <= WORLD_SIZE \div 2
  /\ camera.y - CAMERA_SIZE >= -(WORLD_SIZE \div 2)
  /\ camera.y + CAMERA_SIZE <= WORLD_SIZE \div 2

\* C12 witness: gameLoop ran with the local player stored at (500, -600),
\* outside the world, and put the camera at (100, -100).
C12_Witness ==
  /\ frame.currentPlayer # <<>>
  /\ frame.currentPlayer[1].position = Pos(500, -600)
  /\ camera = [x |-> 100, y |-> -100]

\* C13: when the latest players Map has been rendered (so the run of gameLoop
\* that followed read it) and holds the local identity, the camera center is
\* the stored position clamped to [-100, 100] on each axis, whether or not
\* the local player is online or has a mesh.
C13_CameraIsClampOfStored ==
  (~playersChanged /\ MapHas(players, Me)) =>
    camera = [x |-> Clamp(MapGet(players, Me)[1].position.x, -100, 100),
              y |-> Clamp(MapGet(players, Me)[1].position.y, -100, 100)]

Count(steps, name) == Cardinality({i \in DOMAIN steps : steps[i] = name})

\* C14: every run of gameLoop samples the elapsed time first, then sends the
\* position if it sends one, then writes the camera if it follows, then
\* calls render exactly once, last; and the step that runs gameLoop delivers
\* no key event and no notification (the held keys, the players Map and the
\* food array are the same before and after it).
C14_TickStepsInOrder ==
  /\ [](/\ frame.steps[1] = "sample"
        /\ frame.steps[Len(frame.steps)] = "render"
        /\ Count(frame.steps, "sample") = 1
        /\ Count(frame.steps, "render") = 1
        /\ Count(frame.steps, "send") = (IF frame.sent # <<>> THEN 1 ELSE 0)
        /\ Count(frame.steps, "camera") <= 1
        /\ \A i, j \in DOMAIN frame.steps :
             (frame.steps[i] = "send" /\ frame.steps[j] = "camera") => i < j)
  /\ [][(frame' # frame \/ camera' # camera) =>
          (keys' = keys /\ notes' = notes /\ players' = players
             /\ food' = food)]_vars

\* C14 witness: a run of gameLoop executed all four steps.
C14_Witness ==
  /\ frame.steps = <<"sample", "send", "camera", "render">>
  /\ frame.sent # <<>>
  /\ camera = [x |-> 100, y |-> 100]

\* C15: every run of gameLoop after the one at mount is the callback of an
\* animation-frame request: a step in which gameLoop ran (its locals
\* changed) is an animation frame, never a render that follows a store
\* change or a key event.
C15_TicksOnlyOnAnimationFrames ==
  [][frame' # frame => RafTick(frame'.deltaTime)]_vars

\* C16: the held-key set is a subset of {w, a, s, d} in every state, and it
\* changes only in a key-down or key-up step: an animation frame, a
\* notification and a render with its effects leave it as it is.
C16_HeldKeysAreMovementKeys ==
  /\ [](keys \subseteq {"w", "a", "s", "d"})
  /\ [][keys' # keys =>
          \E k \in KeyNames :
            \/ keys' = HandleKeyDown(keys, k) /\ KeyDown(k)
            \/ keys' = HandleKeyUp(keys, k) /\ KeyUp(k)]_vars

\* C16 witness: w and d are held (either may have come as "W" or "D"), the
\* last run of gameLoop read both and sent a position, and notifications
\* were delivered while keys were held.
C16_Witness ==
  /\ keys = {"w", "d"}
  /\ frame.held = {"w", "d"}
  /\ frame.sent # <<>>
  /\ notes = MaxNotes

\* C17: a run of gameLoop sends a position only if it differs from the
\* position of the local player that run read from the players Map.
C17_SentOnlyIfMoved ==
  frame.sent # <<>> => frame.sent[1] # frame.currentPlayer[1].position

\* C18: in a run of the player effect, for every player that is visited
\* (online in the Map) and already has a mesh: the geometry is replaced if
\* and only if the row's radius differs from the cached one; then the old
\* geometry is disposed, the new one is a new live object of the new radius,
\* and for the local identity the same holds of the outline geometry, whose
\* inner radius is the new radius. The material stays the same object and
\* its color is the row's color if that differs from the cached one and is
\* untouched otherwise. A run in which no visited player is new or differs in
\* radius allocates nothing and disposes nothing.
C18_RebuildIffRadiusDiffers ==
  [][(playersChanged /\ ~playersChanged') =>
       LET visited == DOMAIN playerMeshes \cap OnlineKeys(players)
           Row(k) == MapGet(players, k)[1]
           Differs(k) == Row(k).radius # playerMeshes[k].currentRadius
       IN /\ \A k \in visited :
               LET old == playerMeshes[k]
                   new == playerMeshes'[k]
               IN /\ Differs(k) <=> new.geometry.h # old.geometry.h
                  /\ Differs(k) =>
                       /\ old.geometry.h \in disposed'
                       /\ new.geometry.h \in live' \ (live \cup disposed)
                       /\ new.geometry.radius = Row(k).radius
                       /\ k = Me =>
                            /\ old.outline[1].geometry.h \in disposed'
                            /\ new.outline[1].geometry.h
                                 \in live' \ (live \cup disposed)
                            /\ new.outline[1].geometry.inner = Row(k).radius
                  /\ ~Differs(k) => new.outline = old.outline
                  /\ new.outline # <<>> =>
                       new.outline[1].material = old.outline[1].material
                  /\ new.material.h = old.material.h
                  /\ new.material.h \in live'
                  /\ new.material.color =
                       IF Row(k).color # old.currentColor
                       THEN UnitColor(Row(k).color) ELSE old.material.color
          /\ (/\ OnlineKeys(players) \subseteq DOMAIN playerMeshes
              /\ \A k \in visited : ~Differs(k))
               => lastRun'.players = <<NoOps>>
          /\ lastRun'.players[1].materials
               = 2 * Cardinality((OnlineKeys(players) \cap {Me})
                                   \ DOMAIN playerMeshes)
                 + Cardinality(OnlineKeys(players)
                                 \ (DOMAIN playerMeshes \cup {Me}))]_vars

\* C18 witness: the last run of the player effect rebuilt the geometry and
\* the outline of the local player, from radius 10 to radius 20.
C18_Witness ==
  /\ lastRun.players = <<[geometries |-> 2, materials |-> 0, disposes |-> 2,
                          doubleDisposes |-> 0]>>
  /\ Me \in DOMAIN playerMeshes
  /\ playerMeshes[Me].geometry.radius = 20
  /\ playerMeshes[Me].outline[1].geometry.inner = 20
  /\ Cardinality(disposed) = 2

\* C19: no geometry or material is disposed twice: in no run of the player
\* effect, the food effect or the scene teardown was dispose() called on an
\* object already disposed; no disposed object is live; while Game is
\* mounted no mesh in playerMeshes or foodMeshes refers to a disposed object;
\* and whatever a step disposes belonged to a mesh in those maps before it.
C19_NoDoubleDispose ==
  /\ [](/\ \A run \in {lastRun.players, lastRun.food, lastRun.teardown} :
             run # <<>> => run[1].doubleDisposes = 0
        /\ live \cap disposed = {}
        /\ mounted => OwnedHandles \cap disposed = {})
  /\ [][/\ (disposed' \ disposed) \subseteq OwnedHandles
        /\ disposed \subseteq disposed'
        /\ \A run \in {lastRun'.players, lastRun'.food, lastRun'.teardown} :
             (lastRun' # lastRun /\ run # <<>>) =>
               run[1].disposes <= Cardinality(disposed' \ disposed)]_vars

\* C19 witness: the geometry and the outline geometry of the local player
\* were disposed by a radius rebuild, and the teardown then disposed the four
\* objects of the local player's rebuilt mesh.
C19_Witness ==
  /\ ~mounted
  /\ lastRun.teardown # <<>>
  /\ lastRun.teardown[1].disposes >= 4
  /\ Me \in DOMAIN playerMeshes
  /\ playerMeshes[Me].geometry.radius = 20
  /\ playerMeshes[Me].geometry.h \in disposed
  /\ Cardinality(disposed) >= 6

\* C20: a notification never changes the contents of the players Map that
\* Game was last rendered with (the Map the effects ran on and the running
\* gameLoop closure reads): the new state is another Map.
C20_ExposedSnapshotImmutable ==
  [][notes' # notes => playersProp' = playersProp]_vars

OwnedUids ==
  {playerMeshes[k].uid : k \in DOMAIN playerMeshes}
    \cup {foodMeshes[k].uid : k \in DOMAIN foodMeshes}

\* C21: in every state the player and food meshes attached to the scene are
\* exactly the values of playerMeshes and foodMeshes: every owned mesh is in
\* the scene, every mesh in the scene is owned, and distinct keys own
\* distinct meshes, so the scene holds one mesh per owned key.
C21_SceneIsOwnedMeshes ==
  /\ scene = OwnedUids
  /\ \A j, k \in DOMAIN playerMeshes :
       playerMeshes[j].uid = playerMeshes[k].uid => j = k
  /\ \A j, k \in DOMAIN foodMeshes :
       foodMeshes[j].uid = foodMeshes[k].uid => j = k
  /\ \A j \in DOMAIN playerMeshes : \A k \in DOMAIN foodMeshes :
       playerMeshes[j].uid # foodMeshes[k].uid
  /\ Cardinality(scene)
       = Cardinality(DOMAIN playerMeshes) + Cardinality(DOMAIN foodMeshes)

\* C21 witness: a player's mesh was created and then dropped by the garbage
\* pass (its two objects are still live, see C4) while a food mesh is owned:
\* the scene holds the food mesh alone.
C21_Witness ==
  /\ DOMAIN playerMeshes = {}
  /\ Cardinality(DOMAIN foodMeshes) = 1
  /\ Cardinality(scene) = 1
  /\ Cardinality(live) = 4
  /\ disposed = {}

\* C22: while Game is mounted at most one animation-frame request for
\* gameLoop is pending, whenever renders with a new players Map restart the
\* loop effect; once Game is unmounted no request is pending and gameLoop
\* never runs again (its locals and the camera stay as they are).
C22_OnePendingFrameRequest ==
  /\ [](/\ rafPending \in 0..1
        /\ ~mounted => rafPending = 0)
  /\ [][~mounted => (frame' = frame /\ camera' = camera
                       /\ rafPending' = rafPending)]_vars

\* C22 witness: Game was unmounted after the loop effect had been restarted
\* by a render with the local player and a run of gameLoop had sent a
\* position; no request is pending, and a notification arrived since.
C22_Witness ==
  /\ ~mounted
  /\ rafPending = 0
  /\ Me \in DOMAIN playerMeshes
  /\ frame.sent # <<>>
  /\ playersChanged
====
